---------------------------- MODULE Spec2Model ----------------------------
(***************************************************************************)
(* Model of newsday_crawler.py (class NewsdayCrawler).                     *)
(*                                                                         *)
(* The specifications share the pure loop body of crawl_page:              *)
(*   Spec      the whole run of main: crawl_historical_data with the main  *)
(*             thread, the ThreadPoolExecutor and its worker threads, each *)
(*             running process_date_batch on the date targets, then        *)
(*             save_data and the report of the total;                      *)
(*   LiveSpec  Spec with weak fairness of every thread;                    *)
(*   SpecExc   Spec where a statement of process_date_batch may raise an   *)
(*             exception, which its `except Exception` catches;            *)
(*   SpecCP    one call crawl_page(url, max_retries) in isolation, with    *)
(*             the log of its attempts and backoff sleeps;                 *)
(*   SpecGD    one call generate_date_urls(years_back) in isolation.       *)
(*                                                                         *)
(* Python dicts are functions from key strings to values; list.extend is   *)
(* not assumed to be atomic (a load of the list followed by a store).      *)
(***************************************************************************)
EXTENDS Integers, Sequences, FiniteSets, TLC

\* ------------------------------------------------------------- bounds
\* number of date targets generate_date_urls returns (days in the window)
NumTargets == 2
\* largest max_retries argument of crawl_page in SpecCP
MaxRetries == 3
\* largest years_back argument of generate_date_urls in SpecGD
MaxYearsBack == 1

\* ------------------------------------------------------------- constants
\* crawl_page(self, url, max_retries=3)
max_retries == 3
\* crawl_historical_data(self, years_back=15, max_workers=2, delay=0.5);
\* the run is modelled for every max_workers from -1 to this default
default_max_workers == 2

VARIABLES
    \* --- crawl_historical_data (Spec)
    max_workers,      \* the max_workers argument
    main_pc,          \* position of the main thread
    submitted,        \* number of date targets submitted to the executor
    work_queue,       \* the executor's queue of submitted, unclaimed targets
    num_threads,      \* worker threads the executor has started
    future,           \* per target: state and result of its future
    yielded,          \* targets as_completed has yielded (pbar.update)
    worker,           \* per thread: pc and the locals of process_date_batch
    articles_data,    \* self.articles_data
    articles_lock,    \* self.articles_lock: 0 when free, else the holder
    \* --- history of the run (not read by any action guard)
    runs,             \* per target: times process_date_batch started on it
    index_result,     \* per target: what crawl_page returned for its index
    references,       \* per target: the article urls index extraction gave
    article_log,      \* per target: per article, url / attempts / failed
    added,            \* number of records passed to articles_data.extend
    errors,           \* targets for which line 246 logged an error
    sleep_log,        \* per target: the delays its task has slept, in order
    \* --- main(), after crawl_historical_data
    results,          \* what save_data returned
    reported,         \* the total main printed, -1 before
    \* --- crawl_page in isolation (SpecCP)
    cp_pc, cp_max_retries, cp_attempt, cp_log, cp_result,
    \* --- generate_date_urls in isolation (SpecGD)
    gd_pc, gd_now, gd_years_back, gd_current, gd_urls

run_vars == <<max_workers, main_pc, submitted, work_queue, num_threads, future,
              yielded, worker, articles_data, articles_lock>>
hist_vars == <<runs, index_result, references, article_log, added>>
cp_vars == <<cp_pc, cp_max_retries, cp_attempt, cp_log, cp_result>>
gd_vars == <<gd_pc, gd_now, gd_years_back, gd_current, gd_urls>>
aux_vars == <<errors, sleep_log, results, reported>>
vars == <<run_vars, hist_vars, cp_vars, gd_vars, aux_vars>>

Targets == 1..NumTargets
\* the executor starts at most one thread per submit
ThreadIds == 1..NumTargets

\* ------------------------------------------------------------- helpers
RECURSIVE Pow2(_)
Pow2(n) == IF n <= 0 THEN 1 ELSE 2 * Pow2(n - 1)

RECURSIVE SumSeq(_)
SumSeq(s) == IF s = <<>> THEN 0 ELSE Head(s) + SumSeq(Tail(s))

\* dict.update(other): keys of other win
Update(d, other) == other @@ d

\* d[key] = value
SetItem(d, key, value) == (key :> value) @@ d

\* ------------------------------------------------------------- crawl_page
\* How one attempt of crawl_page can end.
\*   ok             page.goto gave status 200 and extraction returned
\*   http_status    response.status != 200                    (line 64)
\*   timeout        page.goto raised a timeout                (line 79)
\*   transport      playwright / browser raised               (line 79)
\*   extract_error  extract_articles_from_page raised         (line 79)
FetchFailures == {"http_status", "timeout", "transport"}
PageOutcomes == {"ok"} \cup FetchFailures \cup {"extract_error"}

\* mutant: a successful attempt does not return, the loop goes on
crawl_page_step_noreturn(attempt, outcome, retries) ==
    IF attempt + 1 < retries
    THEN [next |-> "retry", sleep |-> 0, result |-> "none"]
    ELSE [next |-> "return", sleep |-> 0,
          result |-> IF outcome = "ok" THEN "success" ELSE "failure"]

\* mutant: an exception gives up at once instead of retrying
crawl_page_step_giveup(attempt, outcome, retries) ==
    IF outcome = "ok"
    THEN [next |-> "return", sleep |-> 0, result |-> "success"]
    ELSE IF outcome = "http_status" /\ attempt + 1 < retries
    THEN [next |-> "retry", sleep |-> 0, result |-> "none"]
    ELSE [next |-> "return", sleep |-> 0, result |-> "failure"]

\* mutant: an exception of the link extraction is swallowed and the page
\* counts as fetched, with no article
crawl_page_step_extract_empty(attempt, outcome, retries) ==
    IF outcome \in {"ok", "extract_error"}
    THEN [next |-> "return", sleep |-> 0, result |-> "success"]
    ELSE IF outcome = "http_status"
    THEN IF attempt + 1 < retries
         THEN [next |-> "retry", sleep |-> 0, result |-> "none"]
         ELSE [next |-> "return", sleep |-> 0, result |-> "failure"]
    ELSE IF attempt < retries - 1
         THEN [next |-> "retry", sleep |-> Pow2(attempt), result |-> "none"]
         ELSE [next |-> "return", sleep |-> 0, result |-> "failure"]

\* The body of `for attempt in range(max_retries)` for one attempt that ended
\* with `outcome`: what the loop does next, how long it sleeps first, and
\* what crawl_page returns when it returns.
crawl_page_step(attempt, outcome, retries) ==
    IF outcome = "ok"
    THEN \* return {'articles': articles}
         [next |-> "return", sleep |-> 0, result |-> "success"]
    ELSE IF outcome = "http_status"
    THEN \* browser.close(); continue  -- no sleep; the loop may run out,
         \* and the function then ends without a return statement (None)
         IF attempt + 1 < retries
         THEN [next |-> "retry", sleep |-> 0, result |-> "none"]
         ELSE [next |-> "return", sleep |-> 0, result |-> "failure"]
    ELSE \* except Exception
         IF attempt < retries - 1
         THEN [next |-> "retry", sleep |-> Pow2(attempt), result |-> "none"]
         ELSE [next |-> "return", sleep |-> 0, result |-> "failure"]

\* --- SpecCP: one call of crawl_page
CPInit ==
    /\ cp_pc = "call"
    /\ cp_max_retries \in 0..MaxRetries
    /\ cp_attempt = 0
    /\ cp_log = <<>>
    /\ cp_result = "none"

\* entering the for loop: range(max_retries) may be empty
CPCall ==
    /\ cp_pc = "call"
    /\ IF cp_max_retries > 0
       THEN /\ cp_pc' = "attempt"
            /\ cp_result' = cp_result
       ELSE /\ cp_pc' = "returned"
            /\ cp_result' = "failure"
    /\ UNCHANGED <<cp_max_retries, cp_attempt, cp_log>>
    /\ UNCHANGED <<run_vars, hist_vars, gd_vars, aux_vars>>

\* one attempt ends
CPAttempt ==
    /\ cp_pc = "attempt"
    /\ \E outcome \in PageOutcomes :
         LET step == crawl_page_step(cp_attempt, outcome, cp_max_retries) IN
         /\ cp_log' = Append(cp_log, [kind |-> outcome, sleep |-> step.sleep])
         /\ IF step.next = "return"
            THEN /\ cp_pc' = "returned"
                 /\ cp_result' = step.result
                 /\ cp_attempt' = cp_attempt
            ELSE /\ cp_pc' = IF step.sleep > 0 THEN "sleep" ELSE "attempt"
                 /\ cp_result' = cp_result
                 /\ cp_attempt' = cp_attempt + 1
    /\ UNCHANGED cp_max_retries
    /\ UNCHANGED <<run_vars, hist_vars, gd_vars, aux_vars>>

\* time.sleep(2 ** attempt) returns
CPWake ==
    /\ cp_pc = "sleep"
    /\ cp_pc' = "attempt"
    /\ UNCHANGED <<cp_max_retries, cp_attempt, cp_log, cp_result>>
    /\ UNCHANGED <<run_vars, hist_vars, gd_vars, aux_vars>>


\* ------------------------------------------------------------- the site
\* generate_date_urls: one {'url', 'date'} dict per day of the window, in
\* ascending order; target i stands for the i-th day
date_urls ==
    [i \in Targets |-> [url |-> <<"date", i>>, date |-> i]]

\* The article links on the index page of target t that pass is_article_url
\* and the title filter, in page order.  Article i+1 is linked from the
\* pages of day i (odd i) and of day i+1.
IndexLinks(t) == IF t % 2 = 1 THEN <<t, t + 1>> ELSE <<t>>

\* what an index page can hold when it is fetched: its links, or none
IndexPages(t) == {IndexLinks(t), <<>>}

\* extract_articles_from_page: one dict per link that passed the filters
extract_articles_from_page(links) ==
    [k \in 1..Len(links) |->
        [title |-> <<"link", links[k]>>,
         url |-> links[k],
         preview_text |-> <<"link", links[k]>>]]

\* the optional fields extract_article_data looks for
ArticleFields == {"title", "content", "author", "date", "category"}

\* the fields whose selectors match on the page of article u: every one on
\* the odd articles, the content alone on the even ones
ArticlePage(u) == IF u % 2 = 1 THEN ArticleFields ELSE {"content"}

\* extract_article_data: data = {'url': url} plus every field found
extract_article_data(found, url) ==
    [k \in {"url"} \cup found |->
        IF k = "url" THEN url ELSE <<"page", k, url>>]

\* How the single attempt of crawl_article_content can end: status 200 and
\* the page parsed, a non-200 status (return None), or an exception raised
\* by the browser or by extract_article_data (return None).
ArticleOutcomes == {"ok", "http_status", "exception"}

\* mutant: crawl_article_content retries like crawl_page does
crawl_article_content_retrying(outcome, url, tried) ==
    IF outcome = "ok"
    THEN [next |-> "return", content |-> extract_article_data(ArticlePage(url), url),
          none |-> FALSE]
    ELSE IF tried < max_retries
    THEN [next |-> "retry", content |-> <<>>, none |-> TRUE]
    ELSE [next |-> "return", content |-> <<>>, none |-> TRUE]

\* crawl_article_content(article_url), its attempt number `tried` ending with
\* `outcome`: the function has no loop, it returns after the one attempt
crawl_article_content(outcome, url, tried) ==
    IF outcome = "ok"
    THEN [next |-> "return", content |-> extract_article_data(ArticlePage(url), url),
          none |-> FALSE]
    ELSE [next |-> "return", content |-> <<>>, none |-> TRUE]

\* ------------------------------------------------------------- executor
\* mutant: a thread is started for every submit
ShouldSpawn_always(n, limit) == TRUE

\* mutant: off by one, the pool stays one thread short
ShouldSpawn_short(n, limit) == n < limit - 1

\* ThreadPoolExecutor.submit starts a thread while fewer than max_workers run
ShouldSpawn(n, limit) == n < limit

\* mutant: the lock is not taken into account
LockFree_ignored(lock) == TRUE

\* `with self.articles_lock:` enters only when nobody holds the lock
LockFree(lock) == lock = 0

\* mutant: the return value counts the date page itself
process_date_batch_return_plus(batch) == Len(batch) + 1

\* return len(batch_articles)
process_date_batch_return(batch) == Len(batch)

\* mutant: a failed fetch leaves an empty content in the record
merge_content_placeholder(article, r) ==
    IF r.none THEN SetItem(article, "content", <<>>)
    ELSE Update(article, r.content)

\* mutant: the reference is laid over the page's fields
merge_content_reversed(article, r) ==
    IF r.none THEN article ELSE Update(r.content, article)

\* if full_content: article.update(full_content)
merge_content(article, r) ==
    IF r.none THEN article ELSE Update(article, r.content)

\* mutant: the concatenation is computed and thrown away
list_extend_discarded(list, batch) == list

\* list.extend(batch): the batch behind what the list held
list_extend(list, batch) == list \o batch

NoWorker ==
    [pc |-> "unborn", task |-> 0, attempt |-> 0, articles |-> <<>>,
     idx |-> 0, tried |-> 0, batch_articles |-> <<>>, loaded |-> <<>>]

IdleWorker == [NoWorker EXCEPT !.pc = "idle"]

RunInit ==
    /\ max_workers \in -1..default_max_workers
    /\ main_pc = "start"
    /\ submitted = 0
    /\ work_queue = <<>>
    /\ num_threads = 0
    /\ future = [t \in Targets |-> [state |-> "PENDING", result |-> -1]]
    /\ yielded = {}
    /\ worker = [th \in ThreadIds |-> NoWorker]
    /\ articles_data = <<>>
    /\ articles_lock = 0

HistInit ==
    /\ runs = [t \in Targets |-> 0]
    /\ index_result = [t \in Targets |-> "none"]
    /\ references = [t \in Targets |-> <<>>]
    /\ article_log = [t \in Targets |-> <<>>]
    /\ added = 0

\* the variables of SpecCP while the whole run is modelled
CPIdle ==
    /\ cp_pc = "off"
    /\ cp_max_retries = 0
    /\ cp_attempt = 0
    /\ cp_log = <<>>
    /\ cp_result = "none"

\* nothing logged, slept, saved or printed yet
AuxInit ==
    /\ errors = {}
    /\ sleep_log = [t \in Targets |-> <<>>]
    /\ results = [none |-> TRUE]
    /\ reported = -1

\* the variables of SpecGD while generate_date_urls is not modelled alone
GDIdle ==
    /\ gd_pc = "off"
    /\ gd_now = <<0, 0, 0>>
    /\ gd_years_back = 0
    /\ gd_current = <<0, 0, 0>>
    /\ gd_urls = <<>>

Init == RunInit /\ HistInit /\ CPIdle /\ GDIdle /\ AuxInit

\* ------------------------------------------------------------- main thread
\* mutant: only a negative max_workers is refused
executor_rejects_negative(n) == n < 0

\* ThreadPoolExecutor(max_workers=n) raises ValueError when n <= 0
executor_rejects(n) == n <= 0

\* crawl_historical_data up to line 259: the date urls are generated and
\* the executor is created, or its constructor raises
CreateExecutor ==
    /\ main_pc = "start"
    /\ main_pc' = IF executor_rejects(max_workers) THEN "value_error" ELSE "submit"
    /\ UNCHANGED <<max_workers, submitted, work_queue, num_threads, future,
                   yielded, worker, articles_data, articles_lock>>
    /\ UNCHANGED <<hist_vars, cp_vars, gd_vars, aux_vars>>

\* save_data: None when articles_data is empty, else the file names and the
\* number of articles
save_data(data) ==
    IF data = <<>>
    THEN [none |-> TRUE]
    ELSE [none |-> FALSE, json |-> "json", csv |-> "csv", excel |-> "excel",
          total_articles |-> Len(data)]

\* main: results = crawler.save_data()
SaveData ==
    /\ main_pc = "returned"
    /\ results' = save_data(articles_data)
    /\ main_pc' = "saved"
    /\ UNCHANGED <<max_workers, submitted, work_queue, num_threads, future,
                   yielded, worker, articles_data, articles_lock>>
    /\ UNCHANGED <<hist_vars, cp_vars, gd_vars, errors, sleep_log, reported>>

\* main: print(... results['total_articles'] ...); subscripting None raises
\* TypeError, which main logs and raises again
Report ==
    /\ main_pc = "saved"
    /\ IF results.none
       THEN /\ main_pc' = "raised"
            /\ UNCHANGED reported
       ELSE /\ main_pc' = "done"
            /\ reported' = results.total_articles
    /\ UNCHANGED <<max_workers, submitted, work_queue, num_threads, future,
                   yielded, worker, articles_data, articles_lock>>
    /\ UNCHANGED <<hist_vars, cp_vars, gd_vars, errors, sleep_log, results>>


\* executor.submit(self.process_date_batch, date_info, delay) for the next
\* date_info of date_urls; after the last one the as_completed loop starts
Submit ==
    /\ main_pc = "submit"
    /\ submitted < NumTargets
    /\ submitted' = submitted + 1
    /\ work_queue' = Append(work_queue, submitted + 1)
    /\ IF ShouldSpawn(num_threads, max_workers)
       THEN /\ num_threads' = num_threads + 1
            /\ worker' = [worker EXCEPT ![num_threads + 1] = IdleWorker]
       ELSE UNCHANGED <<num_threads, worker>>
    /\ main_pc' = IF submitted + 1 = NumTargets THEN "as_completed" ELSE "submit"
    /\ UNCHANGED <<max_workers, future, yielded, articles_data, articles_lock>>
    /\ UNCHANGED <<hist_vars, cp_vars, gd_vars, aux_vars>>

\* for future in as_completed(future_to_date): future.result(); pbar.update(1)
AsCompleted ==
    /\ main_pc = "as_completed"
    /\ \E t \in Targets \ yielded :
         /\ future[t].state = "FINISHED"
         /\ yielded' = yielded \cup {t}
    /\ UNCHANGED <<max_workers, main_pc, submitted, work_queue, num_threads,
                   future, worker, articles_data, articles_lock>>
    /\ UNCHANGED <<hist_vars, cp_vars, gd_vars, aux_vars>>

\* as_completed is exhausted; leaving the `with` block calls
\* executor.shutdown(wait=True)
Shutdown ==
    /\ main_pc = "as_completed"
    /\ yielded = Targets
    /\ main_pc' = "shutdown"
    /\ UNCHANGED <<max_workers, submitted, work_queue, num_threads, future,
                   yielded, worker, articles_data, articles_lock>>
    /\ UNCHANGED <<hist_vars, cp_vars, gd_vars, aux_vars>>

\* shutdown(wait=True) has joined every worker thread;
\* crawl_historical_data returns
Return ==
    /\ main_pc = "shutdown"
    /\ \A th \in 1..num_threads : worker[th].pc = "exited"
    /\ main_pc' = "returned"
    /\ UNCHANGED <<max_workers, submitted, work_queue, num_threads, future,
                   yielded, worker, articles_data, articles_lock>>
    /\ UNCHANGED <<hist_vars, cp_vars, gd_vars, aux_vars>>

\* ------------------------------------------------------------- workers
\* what the main thread owns
main_vars == <<max_workers, main_pc, submitted, num_threads, yielded>>

\* lines 221-222 for the article at position k, then the call of
\* crawl_article_content for it (article.get('url') is a non-empty string
\* for every dict extract_articles_from_page builds)
BeginArticle(w, k) ==
    [w EXCEPT
        !.pc = "crawl_article",
        !.idx = k,
        !.tried = 1,
        !.articles[k] =
            SetItem(SetItem(w.articles[k], "crawl_date", date_urls[w.task].date),
                    "source_url", date_urls[w.task].url)]

\* a worker thread takes the next work item and calls process_date_batch,
\* which calls crawl_page(date_info['url']); its first attempt is under way
TakeWork(th) ==
    /\ worker[th].pc = "idle"
    /\ work_queue # <<>>
    /\ LET t == Head(work_queue) IN
       /\ work_queue' = Tail(work_queue)
       /\ future' = [future EXCEPT ![t].state = "RUNNING"]
       /\ worker' = [worker EXCEPT ![th] =
                        [IdleWorker EXCEPT !.pc = "crawl_page", !.task = t]]
       /\ runs' = [runs EXCEPT ![t] = @ + 1]
    /\ UNCHANGED <<main_vars, articles_data, articles_lock>>
    /\ UNCHANGED <<index_result, references, article_log, added, cp_vars, gd_vars, aux_vars>>

\* one attempt of crawl_page on the index page ends; when crawl_page returns,
\* process_date_batch goes on to line 215
CrawlPageAttempt(th) ==
    /\ worker[th].pc = "crawl_page"
    /\ LET w == worker[th]
           t == w.task
       IN \E outcome \in PageOutcomes, links \in IndexPages(t) :
          LET step == crawl_page_step(w.attempt, outcome, max_retries)
              articles == extract_articles_from_page(links)
          IN
          IF step.next = "retry"
          THEN /\ worker' = [worker EXCEPT ![th] =
                    [w EXCEPT !.pc = IF step.sleep > 0 THEN "backoff"
                                                        ELSE "crawl_page",
                              !.attempt = w.attempt + 1]]
               /\ UNCHANGED <<index_result, references>>
          ELSE /\ index_result' = [index_result EXCEPT ![t] = step.result]
               /\ references' = [references EXCEPT ![t] =
                      IF step.result = "success" THEN links ELSE <<>>]
               /\ IF step.result = "success" /\ articles # <<>>
                  THEN \* if result and result.get('articles'): first article
                       worker' = [worker EXCEPT ![th] =
                           BeginArticle([w EXCEPT !.articles = articles], 1)]
                  ELSE \* None, or an empty list: straight to time.sleep(delay)
                       worker' = [worker EXCEPT ![th] =
                           [w EXCEPT !.pc = "date_sleep"]]
    /\ UNCHANGED <<main_vars, work_queue, future, articles_data, articles_lock>>
    /\ UNCHANGED <<runs, article_log, added, cp_vars, gd_vars, aux_vars>>

\* time.sleep(2 ** attempt) in crawl_page returns; the next attempt starts
BackoffDone(th) ==
    /\ worker[th].pc = "backoff"
    /\ worker' = [worker EXCEPT ![th].pc = "crawl_page"]
    /\ UNCHANGED <<main_vars, work_queue, future, articles_data, articles_lock>>
    /\ UNCHANGED <<hist_vars, cp_vars, gd_vars, aux_vars>>

\* the attempt of crawl_article_content on the current article ends;
\* `if full_content: article.update(full_content)`, then time.sleep(0.1)
CrawlArticle(th) ==
    /\ worker[th].pc = "crawl_article"
    /\ LET w == worker[th]
           k == w.idx
           url == w.articles[k].url
       IN \E outcome \in ArticleOutcomes :
          LET r == crawl_article_content(outcome, url, w.tried) IN
          IF r.next = "retry"
          THEN /\ worker' = [worker EXCEPT ![th].tried = w.tried + 1]
               /\ UNCHANGED article_log
          ELSE /\ worker' = [worker EXCEPT ![th] =
                    [w EXCEPT !.pc = "article_sleep",
                              !.articles[k] = merge_content(w.articles[k], r)]]
               /\ article_log' = [article_log EXCEPT ![w.task] =
                    Append(@, [url |-> url, attempts |-> w.tried, failed |-> r.none])]
    /\ UNCHANGED <<main_vars, work_queue, future, articles_data, articles_lock>>
    /\ UNCHANGED <<runs, index_result, references, added, cp_vars, gd_vars, aux_vars>>

\* mutant: time.sleep(0.1) sits inside `if full_content:`
per_article_sleep_on_success(failed) == ~failed

\* whether time.sleep(0.1) is reached after a fetch that failed or not:
\* line 231 follows the `if full_content:` block, it is always reached
per_article_sleep(failed) == TRUE

\* mutant: the record goes to self.articles_data as soon as it is complete,
\* one record at a time, and batch_articles stays empty
ArticleSleepDone_streaming(th) ==
    /\ worker[th].pc = "article_sleep"
    /\ LET w == worker[th]
           k == w.idx
       IN /\ articles_data' = Append(articles_data, w.articles[k])
          /\ worker' = [worker EXCEPT ![th] =
                IF k < Len(w.articles)
                THEN BeginArticle(w, k + 1)
                ELSE [w EXCEPT !.pc = "acquire"]]
    /\ sleep_log' = [sleep_log EXCEPT ![worker[th].task] = Append(@, "per_article")]
    /\ UNCHANGED <<main_vars, work_queue, future, articles_lock>>
    /\ UNCHANGED <<hist_vars, cp_vars, gd_vars, errors, results, reported>>

\* time.sleep(0.1) returns; batch_articles.append(article); then the next
\* article of the loop, or after the last one `with self.articles_lock:`
ArticleSleepDone(th) ==
    /\ worker[th].pc = "article_sleep"
    /\ LET w == worker[th]
           k == w.idx
           appended == [w EXCEPT !.batch_articles = Append(@, w.articles[k])]
       IN worker' = [worker EXCEPT ![th] =
                IF k < Len(w.articles)
                THEN BeginArticle(appended, k + 1)
                ELSE [appended EXCEPT !.pc = "acquire"]]
    /\ sleep_log' = [sleep_log EXCEPT ![worker[th].task] =
            IF per_article_sleep(article_log[worker[th].task][worker[th].idx].failed)
            THEN Append(@, "per_article") ELSE @]
    /\ UNCHANGED <<main_vars, work_queue, future, articles_data, articles_lock>>
    /\ UNCHANGED <<hist_vars, cp_vars, gd_vars, errors, results, reported>>

\* with self.articles_lock: -- blocks until the lock is free
AcquireLock(th) ==
    /\ worker[th].pc = "acquire"
    /\ LockFree(articles_lock)
    /\ articles_lock' = th
    /\ worker' = [worker EXCEPT ![th].pc = "extend_load"]
    /\ UNCHANGED <<main_vars, work_queue, future, articles_data>>
    /\ UNCHANGED <<hist_vars, cp_vars, gd_vars, aux_vars>>

\* self.articles_data.extend(batch_articles), first half: the list is read
ExtendLoad(th) ==
    /\ worker[th].pc = "extend_load"
    /\ worker' = [worker EXCEPT ![th].pc = "extend_store",
                                ![th].loaded = articles_data]
    /\ UNCHANGED <<main_vars, work_queue, future, articles_data, articles_lock>>
    /\ UNCHANGED <<hist_vars, cp_vars, gd_vars, aux_vars>>

\* second half: the list with the batch behind it is written, and the
\* `with` block is left, which releases the lock
ExtendStore(th) ==
    /\ worker[th].pc = "extend_store"
    /\ articles_data' = list_extend(worker[th].loaded, worker[th].batch_articles)
    /\ added' = added + Len(worker[th].batch_articles)
    /\ articles_lock' = IF articles_lock = th THEN 0 ELSE articles_lock
    /\ worker' = [worker EXCEPT ![th].pc = "date_sleep", ![th].loaded = <<>>]
    /\ UNCHANGED <<main_vars, work_queue, future>>
    /\ UNCHANGED <<runs, index_result, references, article_log, cp_vars, gd_vars, aux_vars>>

\* time.sleep(delay) returns; return len(batch_articles): the future of the
\* target is finished and the thread goes back to the queue
DateSleepDone(th) ==
    /\ worker[th].pc = "date_sleep"
    /\ future' = [future EXCEPT ![worker[th].task] =
            [state |-> "FINISHED",
             result |-> process_date_batch_return(worker[th].batch_articles)]]
    /\ worker' = [worker EXCEPT ![th] = IdleWorker]
    /\ sleep_log' = [sleep_log EXCEPT ![worker[th].task] = Append(@, "per_date")]
    /\ UNCHANGED <<main_vars, work_queue, articles_data, articles_lock>>
    /\ UNCHANGED <<hist_vars, cp_vars, gd_vars, errors, results, reported>>

\* after shutdown an idle thread that finds the queue empty exits
ThreadExit(th) ==
    /\ main_pc = "shutdown"
    /\ worker[th].pc = "idle"
    /\ work_queue = <<>>
    /\ worker' = [worker EXCEPT ![th].pc = "exited"]
    /\ UNCHANGED <<main_vars, work_queue, future, articles_data, articles_lock>>
    /\ UNCHANGED <<hist_vars, cp_vars, gd_vars, aux_vars>>

MainStep ==
    \/ CreateExecutor
    \/ Submit
    \/ AsCompleted
    \/ Shutdown
    \/ Return
    \/ SaveData
    \/ Report

WorkerStep(th) ==
    \/ TakeWork(th)
    \/ CrawlPageAttempt(th)
    \/ BackoffDone(th)
    \/ CrawlArticle(th)
    \/ ArticleSleepDone(th)
    \/ AcquireLock(th)
    \/ ExtendLoad(th)
    \/ ExtendStore(th)
    \/ DateSleepDone(th)
    \/ ThreadExit(th)

Next == MainStep \/ \E th \in ThreadIds : WorkerStep(th)

Spec == Init /\ [][Next]_vars

\* every thread that can run is eventually scheduled, and every fetch and
\* every sleep ends
LiveSpec ==
    /\ Spec
    /\ WF_vars(MainStep)
    /\ \A th \in ThreadIds : WF_vars(WorkerStep(th))

\* ------------------------------------------------------------- SpecExc
\* mutant: the lock stays with the thread whose block raised
lock_after_exit_kept(lock, th) == lock

\* leaving `with self.articles_lock:`, also by an exception: the lock is
\* released if the thread holds it
lock_after_exit(lock, th) == IF lock = th THEN 0 ELSE lock

\* where a statement of process_date_batch outside crawl_page and
\* crawl_article_content can raise: merging and appending the article
\* (lines 228-233), extending the aggregate (line 237)
CanRaise == {"article_sleep", "extend_load", "extend_store"}

\* an exception is raised there: `except Exception` logs it and returns 0
\* (lines 245-247); the future is finished and the thread is idle again
Raise(th) ==
    /\ worker[th].pc \in CanRaise
    /\ errors' = errors \cup {worker[th].task}
    /\ future' = [future EXCEPT ![worker[th].task] =
            [state |-> "FINISHED", result |-> 0]]
    /\ articles_lock' = lock_after_exit(articles_lock, th)
    /\ worker' = [worker EXCEPT ![th] = IdleWorker]
    /\ UNCHANGED <<main_vars, work_queue, articles_data>>
    /\ UNCHANGED <<hist_vars, cp_vars, gd_vars, sleep_log, results, reported>>

NextExc == Next \/ \E th \in ThreadIds : Raise(th)

\* the whole run, with exceptions raised inside process_date_batch
SpecExc == Init /\ [][NextExc]_vars

\* ------------------------------------------------------------- SpecCP
\* the variables of the run while crawl_page is modelled alone
RunIdle ==
    /\ max_workers = 1
    /\ main_pc = "off"
    /\ submitted = 0
    /\ work_queue = <<>>
    /\ num_threads = 0
    /\ future = [t \in Targets |-> [state |-> "PENDING", result |-> -1]]
    /\ yielded = {}
    /\ worker = [th \in ThreadIds |-> NoWorker]
    /\ articles_data = <<>>
    /\ articles_lock = 0

InitCP == CPInit /\ RunIdle /\ HistInit /\ GDIdle /\ AuxInit

NextCP == CPCall \/ CPAttempt \/ CPWake

SpecCP == InitCP /\ [][NextCP]_vars

\* ------------------------------------------------------------- SpecGD
\* generate_date_urls alone.  A date is <<year, month, day>>; end_date and
\* every current_date carry the time of day of datetime.now(), so they
\* compare as their dates do.
IsLeap(y) == (y % 4 = 0 /\ y % 100 # 0) \/ y % 400 = 0

DaysInMonth(y, m) ==
    IF m = 2 THEN (IF IsLeap(y) THEN 29 ELSE 28)
    ELSE IF m \in {4, 6, 9, 11} THEN 30 ELSE 31

\* date - relativedelta(years=n): the year moves, the day is cut back to
\* the length of the month (29 February becomes 28 February)
relativedelta_years(date, n) ==
    LET y == date[1] - n
        last == DaysInMonth(y, date[2])
    IN <<y, date[2], IF date[3] > last THEN last ELSE date[3]>>

\* date + timedelta(days=1)
add_day(date) ==
    IF date[3] < DaysInMonth(date[1], date[2])
    THEN <<date[1], date[2], date[3] + 1>>
    ELSE IF date[2] < 12
    THEN <<date[1], date[2] + 1, 1>>
    ELSE <<date[1] + 1, 1, 1>>

\* mutant: the loop stops before the end date
date_lt(a, b) ==
    \/ a[1] < b[1]
    \/ a[1] = b[1] /\ a[2] < b[2]
    \/ a[1] = b[1] /\ a[2] = b[2] /\ a[3] < b[3]

\* current_date <= end_date
date_le(a, b) ==
    \/ a[1] < b[1]
    \/ a[1] = b[1] /\ a[2] < b[2]
    \/ a[1] = b[1] /\ a[2] = b[2] /\ a[3] <= b[3]

\* the dict appended for current_date: strftime("%Y/%m/%d") behind the base
\* url, and strftime("%Y-%m-%d")
date_entry(date) ==
    [url |-> <<"https://newsday.co.tt", date[1], date[2], date[3]>>,
     date |-> date]

\* the reference times datetime.now() is drawn from
GDNows == {<<2024, 2, 29>>, <<2024, 3, 1>>, <<2024, 12, 31>>,
           <<2025, 1, 1>>, <<2025, 2, 28>>, <<2026, 11, 6>>}

GDInit ==
    /\ gd_pc = "loop"
    /\ gd_now \in GDNows
    /\ gd_years_back \in 0..MaxYearsBack
    /\ gd_current = relativedelta_years(gd_now, gd_years_back)
    /\ gd_urls = <<>>

\* while current_date <= end_date: urls.append(...); current_date += 1 day
GDAppend ==
    /\ gd_pc = "loop"
    /\ date_le(gd_current, gd_now)
    /\ gd_urls' = Append(gd_urls, date_entry(gd_current))
    /\ gd_current' = add_day(gd_current)
    /\ UNCHANGED <<gd_pc, gd_now, gd_years_back>>
    /\ UNCHANGED <<run_vars, hist_vars, cp_vars, aux_vars>>

\* the loop condition fails: return urls
GDReturn ==
    /\ gd_pc = "loop"
    /\ ~date_le(gd_current, gd_now)
    /\ gd_pc' = "returned"
    /\ UNCHANGED <<gd_now, gd_years_back, gd_current, gd_urls>>
    /\ UNCHANGED <<run_vars, hist_vars, cp_vars, aux_vars>>

InitGD == GDInit /\ RunIdle /\ HistInit /\ CPIdle /\ AuxInit

NextGD == GDAppend \/ GDReturn

SpecGD == InitGD /\ [][NextGD]_vars

\* ------------------------------------------------------------- properties
\* the records of articles_data that target t's task produced
RecordsOf(t) ==
    SelectSeq(articles_data, LAMBDA r : r.crawl_date = date_urls[t].date)

\* where a thread is inside process_date_batch
InTask == {"crawl_page", "backoff", "crawl_article", "article_sleep",
           "acquire", "extend_load", "extend_store", "date_sleep"}

\* where a page fetch (page.goto) of the thread is under way
Fetching == {"crawl_page", "crawl_article"}

\* the keys extract_article_data adds besides url and title
ExtractedOnly == {"content", "author", "date", "category"}

\* C1: a target whose index fetch failed (crawl_page returned None) has no
\* record in the aggregate, its task holds an empty batch and returns 0,
\* and when crawl_historical_data returns every target has been processed
\* to completion.
C1_IndexFailureIsolated ==
    /\ \A t \in Targets :
         index_result[t] = "failure" =>
           /\ RecordsOf(t) = <<>>
           /\ future[t].state \in {"RUNNING", "FINISHED"}
           /\ future[t].state = "FINISHED" => future[t].result = 0
           /\ \A th \in ThreadIds :
                worker[th].task = t =>
                  /\ worker[th].pc = "date_sleep"
                  /\ worker[th].batch_articles = <<>>
    /\ main_pc = "returned" =>
         \A t \in Targets : future[t].state = "FINISHED" /\ runs[t] = 1

\* a run has returned in which one target's index fetch failed and another
\* target contributed records
C1_Witness ==
    /\ main_pc = "returned"
    /\ \E t1, t2 \in Targets :
         /\ index_result[t1] = "failure"
         /\ future[t1].result = 0
         /\ index_result[t2] = "success"
         /\ future[t2].result > 0
         /\ RecordsOf(t2) # <<>>

\* C2: once a task has extended the aggregate, the aggregate holds exactly
\* one record per reference of its index page, in page order; the record of
\* a reference whose article fetch failed carries the reference's title and
\* url, the crawl date and the source index url, and no field that comes
\* from the article page.
C2_PartialRecordKept ==
    \A t \in Targets :
      (\/ future[t].state = "FINISHED"
       \/ \E th \in ThreadIds : worker[th].task = t /\ worker[th].pc = "date_sleep")
      =>
      LET recs == RecordsOf(t) IN
      /\ Len(recs) = Len(references[t])
      /\ Len(article_log[t]) = Len(references[t])
      /\ \A k \in 1..Len(recs) :
           /\ recs[k].url = references[t][k]
           /\ article_log[t][k].url = references[t][k]
           /\ article_log[t][k].failed =>
                /\ recs[k].title = <<"link", references[t][k]>>
                /\ recs[k].crawl_date = date_urls[t].date
                /\ recs[k].source_url = date_urls[t].url
                /\ DOMAIN recs[k] \cap ExtractedOnly = {}
                /\ DOMAIN recs[k] =
                     {"title", "url", "preview_text", "crawl_date", "source_url"}

\* a finished target with two references, the fetch of the first article
\* failed and that of the second succeeded
C2_Witness ==
    \E t \in Targets :
      /\ future[t].state = "FINISHED"
      /\ Len(article_log[t]) = 2
      /\ article_log[t][1].failed
      /\ ~article_log[t][2].failed
      /\ Len(RecordsOf(t)) = 2
      /\ "content" \in DOMAIN RecordsOf(t)[2]

\* C3: whenever no worker is inside the critical section, the length of
\* articles_data is the number of records the workers have passed to
\* extend, and when the run has returned it is the sum of the counts the
\* tasks returned.
C3_NoLostRecord ==
    /\ articles_lock = 0 => Len(articles_data) = added
    /\ main_pc = "returned" =>
         Len(articles_data) = SumSeq([t \in Targets |-> future[t].result])

\* one worker is inside the critical section with a non-empty batch while
\* another one, also holding records, waits for the lock
C3_Witness ==
    \E th1, th2 \in ThreadIds :
      /\ th1 # th2
      /\ worker[th1].pc \in {"extend_load", "extend_store"}
      /\ worker[th1].batch_articles # <<>>
      /\ articles_lock = th1
      /\ worker[th2].pc = "acquire"
      /\ worker[th2].batch_articles # <<>>

\* C4: under fair scheduling crawl_historical_data, called with a valid
\* max_workers (>= 1), eventually returns, and
\* whenever it has returned every target has been processed exactly once,
\* every future is finished and no worker thread is inside a task.
C4_ReturnsWhenAllDone ==
    /\ (main_pc = "start" /\ max_workers >= 1) ~> (main_pc = "returned")
    /\ [](main_pc = "returned" =>
            /\ \A t \in Targets : runs[t] = 1 /\ future[t].state = "FINISHED"
            /\ work_queue = <<>>
            /\ \A th \in ThreadIds : worker[th].pc \notin InTask)

\* the run has returned after two worker threads shared the targets
C4_Witness ==
    /\ main_pc = "returned"
    /\ num_threads = 2
    /\ \A t \in Targets : runs[t] = 1
    /\ articles_data # <<>>

\* C5: at most max_workers threads are inside process_date_batch, and at
\* most max_workers page fetches are under way.
C5_BoundedParallelism ==
    LET limit == IF executor_rejects(max_workers) THEN 0 ELSE max_workers IN
    /\ Cardinality({th \in ThreadIds : worker[th].pc \in InTask}) <= limit
    /\ Cardinality({th \in ThreadIds : worker[th].pc \in Fetching}) <= limit
    /\ num_threads <= limit

\* the bound is reached: with one worker allowed, a fetch is under way while
\* another target waits in the queue
C5_Witness ==
    /\ max_workers = 1
    /\ work_queue # <<>>
    /\ Cardinality({th \in ThreadIds : worker[th].pc \in Fetching}) = 1

\* --- crawl_page alone (SpecCP)
\* the attempts logged so far all ended in a failed fetch
AllFetchesFailed == \A i \in 1..Len(cp_log) : cp_log[i].kind \in FetchFailures

\* total time crawl_page has slept
TotalSleep == SumSeq([i \in 1..Len(cp_log) |-> cp_log[i].sleep])

\* attempt i was followed by another attempt
Followed(i) == i < Len(cp_log) \/ cp_pc \in {"attempt", "sleep"}

\* C6: a call of crawl_page whose every attempt ends in a failed fetch, of
\* whatever kinds in whatever order, never makes more than max_retries
\* attempts, and when it has returned it has made exactly max_retries
\* attempts and returned the failure result; a call that has not returned
\* can always go on (it does not end in any other way).
C6_ExactlyMaxRetriesThenFailure ==
    /\ Len(cp_log) <= cp_max_retries
    /\ (cp_pc = "returned" /\ AllFetchesFailed) =>
          /\ Len(cp_log) = cp_max_retries
          /\ cp_result = "failure"
    /\ cp_pc \in {"call", "attempt", "sleep"} => ENABLED NextCP

\* three attempts failed with three different kinds and the call returned
C6_Witness ==
    /\ cp_pc = "returned"
    /\ cp_max_retries = 3
    /\ Len(cp_log) = 3
    /\ cp_log[1].kind = "http_status"
    /\ cp_log[2].kind = "timeout"
    /\ cp_log[3].kind = "transport"
    /\ cp_result = "failure"

\* C7: after every failed fetch attempt that is followed by another attempt
\* crawl_page sleeps 2^attemptIndex, whichever kind of failure it was, it
\* does not sleep after the final attempt, and an always-failing call has
\* slept 2^0 + ... + 2^(max_retries-2) when it returns.
C7_BackoffAfterEveryFailure ==
    /\ \A i \in 1..Len(cp_log) :
         cp_log[i].kind \in FetchFailures =>
           cp_log[i].sleep = IF Followed(i) THEN Pow2(i - 1) ELSE 0
    /\ (cp_pc = "returned" /\ AllFetchesFailed /\ cp_max_retries >= 1) =>
          TotalSleep = Pow2(cp_max_retries - 1) - 1

\* C8: an attempt that succeeds is the last attempt of the call, which
\* returns the success result at once; crawl_page returns success only
\* from a successful attempt, and when the first attempt succeeds the call
\* has made one attempt and has not slept.
C8_ReturnsAtFirstSuccess ==
    /\ \A i \in 1..Len(cp_log) :
         cp_log[i].kind = "ok" =>
           /\ i = Len(cp_log)
           /\ cp_pc = "returned"
           /\ cp_result = "success"
           /\ cp_log[i].sleep = 0
    /\ cp_result = "success" =>
         /\ cp_log # <<>>
         /\ cp_log[Len(cp_log)].kind = "ok"
    /\ (cp_log # <<>> /\ cp_log[1].kind = "ok") =>
         /\ Len(cp_log) = 1
         /\ TotalSleep = 0

\* the first attempt failed, the second succeeded and the call returned
C8_Witness ==
    /\ cp_pc = "returned"
    /\ cp_result = "success"
    /\ Len(cp_log) = 2
    /\ cp_log[1].kind = "timeout"
    /\ cp_log[2].kind = "ok"

C11_NoDuplicateUrls ==
    \A i, j \in 1..Len(articles_data) :
      i # j => articles_data[i].url # articles_data[j].url

\* what process_date_batch is to produce for the reference to article u on
\* the index page of target t when the article page was fetched: the
\* fields of the page over those of the reference
ExpectedRecord(t, u) ==
    [k \in {"title", "url", "preview_text", "crawl_date", "source_url"}
             \cup ArticlePage(u) |->
        CASE k = "url" -> u
          [] k = "preview_text" -> <<"link", u>>
          [] k = "crawl_date" -> date_urls[t].date
          [] k = "source_url" -> date_urls[t].url
          [] k = "title" -> IF "title" \in ArticlePage(u)
                            THEN <<"page", "title", u>> ELSE <<"link", u>>
          [] OTHER -> <<"page", k, u>>]

\* no index fetch and no article fetch of the run has failed
EveryFetchSucceeded ==
    /\ \A t \in Targets : index_result[t] = "success"
    /\ \A t \in Targets :
         \A k \in 1..Len(article_log[t]) : ~article_log[t][k].failed

\* C12: when the run has returned and every fetch succeeded, the collection
\* holds one record per reference of every index page, each the article
\* page's fields merged over the reference's, whether or not another page
\* referenced the same article.
C12_OneRecordPerReference ==
    (main_pc = "returned" /\ EveryFetchSucceeded) =>
      /\ Len(articles_data) = SumSeq([t \in Targets |-> Len(references[t])])
      /\ \A t \in Targets :
           /\ future[t].result = Len(references[t])
           /\ RecordsOf(t) =
                [k \in 1..Len(references[t]) |->
                    ExpectedRecord(t, references[t][k])]

\* every fetch succeeded and article 2, linked from the pages of day 1 and
\* of day 2, has two records
C12_Witness ==
    /\ main_pc = "returned"
    /\ EveryFetchSucceeded
    /\ references[1] = <<1, 2>>
    /\ references[2] = <<2>>
    /\ Len(articles_data) = 3
    /\ Cardinality({i \in 1..Len(articles_data) : articles_data[i].url = 2}) = 2

\* C13: with a valid configuration the whole of main (the crawl, save_data,
\* the report) never ends by raising, whatever fetches failed, and the
\* total it reports is the number of records collected.
C13_RunNeverRaises ==
    /\ max_workers >= 1 => main_pc # "raised"
    /\ main_pc = "done" => reported = Len(articles_data)

\* C14: with max_workers < 1 crawl_historical_data gets no further than the
\* creation of the executor, which raises: no target is submitted or taken,
\* no thread is started, no fetch is made and the aggregate stays empty.
C14_InvalidWorkersFailFast ==
    max_workers < 1 =>
      /\ main_pc \in {"start", "value_error"}
      /\ main_pc = "start" => ENABLED CreateExecutor
      /\ submitted = 0
      /\ work_queue = <<>>
      /\ num_threads = 0
      /\ \A t \in Targets : runs[t] = 0 /\ future[t].state = "PENDING"
      /\ \A th \in ThreadIds : worker[th].pc = "unborn"
      /\ articles_data = <<>>

\* the executor's constructor has raised for max_workers = 0
C14_Witness ==
    /\ max_workers = 0
    /\ main_pc = "value_error"
    /\ submitted = 0

\* --- generate_date_urls alone (SpecGD)
\* the number of the day in the proleptic Gregorian calendar
DaysBeforeYear(y) ==
    365 * (y - 1) + ((y - 1) \div 4) - ((y - 1) \div 100) + ((y - 1) \div 400)

RECURSIVE DaysBeforeMonth(_, _)
DaysBeforeMonth(y, m) ==
    IF m = 1 THEN 0 ELSE DaysBeforeMonth(y, m - 1) + DaysInMonth(y, m - 1)

Ordinal(date) == DaysBeforeYear(date[1]) + DaysBeforeMonth(date[1], date[2]) + date[3]

\* D - N years: the same month and day N years earlier, 28 February for a
\* 29 February that the earlier year does not have
YearsBefore(date, n) ==
    IF date[2] = 2 /\ date[3] = 29 /\ ~IsLeap(date[1] - n)
    THEN <<date[1] - n, 2, 28>>
    ELSE <<date[1] - n, date[2], date[3]>>

\* C15: the targets generate_date_urls builds are consecutive calendar days
\* starting at D - N years, each url naming the date of its target; when it
\* returns, the list runs from D - N years to D inclusive, one target per
\* day, and for N = 0 it is the single target dated D.
C15_OneTargetPerDay ==
    LET first == YearsBefore(gd_now, gd_years_back) IN
    /\ \A i \in 1..Len(gd_urls) :
         /\ Ordinal(gd_urls[i].date) = Ordinal(first) + i - 1
         /\ gd_urls[i].date[2] \in 1..12
         /\ gd_urls[i].date[3] \in 1..DaysInMonth(gd_urls[i].date[1], gd_urls[i].date[2])
         /\ gd_urls[i].url = <<"https://newsday.co.tt">> \o gd_urls[i].date
    /\ gd_pc = "returned" =>
         /\ Len(gd_urls) = Ordinal(gd_now) - Ordinal(first) + 1
         /\ gd_urls[1].date = first
         /\ gd_urls[Len(gd_urls)].date = gd_now
         /\ gd_years_back = 0 => gd_urls = <<date_entry(gd_now)>>

\* one year back from 29 February 2024: the list starts on 28 February
\* 2023, crosses the end of the year and ends on 29 February 2024
C15_Witness ==
    /\ gd_pc = "returned"
    /\ gd_now = <<2024, 2, 29>>
    /\ gd_years_back = 1
    /\ gd_urls[1].date = <<2023, 2, 28>>
    /\ Len(gd_urls) = 367
    /\ gd_urls[Len(gd_urls)].date = <<2024, 2, 29>>

\* --- the run with exceptions inside process_date_batch (SpecExc)
\* C16: an exception raised while a target is processed ends that target's
\* task with result 0 and nothing else: the future is finished, the thread
\* is idle again and holds no lock, so no other thread is held up and the
\* run can always go on, and when it returns every target has been taken
\* once and finished.
C16_ExceptionStaysInTask ==
    /\ \A t \in errors :
         /\ future[t] = [state |-> "FINISHED", result |-> 0]
         /\ \A th \in ThreadIds : worker[th].task # t
    /\ articles_lock # 0 =>
         worker[articles_lock].pc \in {"extend_load", "extend_store"}
    /\ main_pc \in {"submit", "as_completed", "shutdown"} => ENABLED NextExc
    /\ main_pc = "returned" =>
         \A t \in Targets : runs[t] = 1 /\ future[t].state = "FINISHED"

\* with a single worker thread, the task of target 1 raised while it held
\* the lock's block or merged an article, and the same thread is now
\* fetching an article of target 2
C16_Witness ==
    /\ max_workers = 1
    /\ 1 \in errors
    /\ future[1].result = 0
    /\ worker[1].task = 2
    /\ worker[1].pc = "crawl_article"

\* --- the whole run (Spec)
\* n per-article delays
ArticleSleeps(n) == [i \in 1..n |-> "per_article"]

\* C17: a task has slept the per-article delay once for every article fetch
\* that ended, failed or not, and nothing else while it is in its loop; a
\* finished task has slept these and then the per-date delay exactly once,
\* also when its index fetch failed or gave no article, and a thread is
\* released for its next target only by the end of that per-date sleep.
C17_DelaysSlept ==
    /\ \A t \in Targets :
         /\ runs[t] = 0 => sleep_log[t] = <<>>
         /\ future[t].state = "FINISHED" =>
              sleep_log[t] = ArticleSleeps(Len(article_log[t])) \o <<"per_date">>
         /\ future[t].state # "FINISHED" => "per_date" \notin
              {sleep_log[t][i] : i \in 1..Len(sleep_log[t])}
    /\ \A th \in ThreadIds :
         LET w == worker[th] IN
         /\ w.pc \in {"crawl_article", "article_sleep"} =>
              sleep_log[w.task] = ArticleSleeps(w.idx - 1)
         /\ w.pc \in {"acquire", "extend_load", "extend_store", "date_sleep"} =>
              sleep_log[w.task] = ArticleSleeps(Len(article_log[w.task]))
         /\ w.pc \in InTask => future[w.task].state = "RUNNING"

\* one finished task slept only the per-date delay after its index fetch
\* failed; another slept twice the per-article delay, the first time after
\* a failed article fetch, and then the per-date delay
C17_Witness ==
    \E t1, t2 \in Targets :
      /\ index_result[t1] = "failure"
      /\ sleep_log[t1] = <<"per_date">>
      /\ Len(article_log[t2]) = 2
      /\ article_log[t2][1].failed
      /\ ~article_log[t2][2].failed
      /\ sleep_log[t2] = <<"per_article", "per_article", "per_date">>

\* the threads inside `with self.articles_lock:`
InCritical == {th \in ThreadIds : worker[th].pc \in {"extend_load", "extend_store"}}

\* C18: at most one thread is inside the `with self.articles_lock:` block,
\* it is the holder of the lock, and the holder is never in a page fetch, an
\* extraction, a backoff or a delay sleep; and every step that changes
\* articles_data is the store of the thread that holds the lock.
C18_MutationUnderLock ==
    /\ [](/\ Cardinality(InCritical) <= 1
          /\ \A th \in ThreadIds : th \in InCritical <=> articles_lock = th
          /\ articles_lock # 0 =>
               worker[articles_lock].pc \notin
                 (Fetching \cup {"backoff", "article_sleep", "date_sleep", "acquire", "idle"}))
    /\ [][articles_data' # articles_data =>
            /\ articles_lock # 0
            /\ worker[articles_lock].pc = "extend_store"
            /\ worker'[articles_lock].pc = "date_sleep"
            /\ articles_lock' = 0]_vars

\* one thread holds the lock and is about to write its two records while
\* the other thread is in an article fetch, outside the lock
C18_Witness ==
    \E th1, th2 \in ThreadIds :
      /\ articles_lock = th1
      /\ worker[th1].pc = "extend_store"
      /\ Len(worker[th1].batch_articles) = 2
      /\ worker[th2].pc = "crawl_article"

\* --- one call of crawl_page again (SpecCP)
\* C19: an attempt in which extract_articles_from_page raised is treated as
\* an attempt whose fetch raised: the loop does the same as for a timeout;
\* while attempts remain the call sleeps 2^attempt and only then fetches
\* the page again, and on the last attempt the call returns the failure
\* result without sleeping.
C19_ExtractionErrorRetried ==
    /\ [](/\ \A a \in 0..MaxRetries, r \in 1..MaxRetries :
               crawl_page_step(a, "extract_error", r) = crawl_page_step(a, "timeout", r)
          /\ \A i \in 1..Len(cp_log) :
               cp_log[i].kind = "extract_error" =>
                 IF i < cp_max_retries
                 THEN /\ cp_log[i].sleep = Pow2(i - 1)
                      /\ Followed(i)
                      /\ cp_result # "success" \/ Len(cp_log) > i
                 ELSE /\ i = Len(cp_log)
                      /\ cp_log[i].sleep = 0
                      /\ cp_pc = "returned"
                      /\ cp_result = "failure")
    /\ [][(/\ Len(cp_log') = Len(cp_log) + 1
           /\ cp_log'[Len(cp_log')].kind = "extract_error"
           /\ Len(cp_log') < cp_max_retries) => cp_pc' = "sleep"]_vars

\* the extraction raised on the first attempt and on the third, the last
\* one; the call slept 1 after the first, and returned the failure result
C19_Witness ==
    /\ cp_pc = "returned"
    /\ cp_max_retries = 3
    /\ Len(cp_log) = 3
    /\ cp_log[1].kind = "extract_error"
    /\ cp_log[1].sleep = 1
    /\ cp_log[2].kind = "http_status"
    /\ cp_log[3].kind = "extract_error"
    /\ cp_result = "failure"

\* --- the whole run again (Spec)
\* the positions of articles_data that hold a record of target t
PositionsOf(t) ==
    {i \in 1..Len(articles_data) : articles_data[i].crawl_date = date_urls[t].date}

\* C20: in every state, articles_data holds no record of a target or one
\* record for each reference of its index page; the records of a target
\* stand side by side in articles_data, in the order of the references;
\* and a step that adds records of a target adds all of them.
C20_BatchAppendedWhole ==
    /\ [](\A t \in Targets :
            LET recs == RecordsOf(t)
                pos == PositionsOf(t)
            IN \/ recs = <<>>
               \/ /\ Len(recs) = Len(references[t])
                  /\ \A k \in 1..Len(recs) : recs[k].url = references[t][k]
                  /\ \A i, j \in pos : \A m \in i..j : m \in pos)
    /\ [][\A t \in Targets :
            RecordsOf(t)' # RecordsOf(t) =>
              /\ RecordsOf(t) = <<>>
              /\ Len(RecordsOf(t)') = Len(references[t])
              /\ \E th \in ThreadIds :
                   /\ worker[th].task = t
                   /\ worker[th].pc = "extend_store"
                   /\ RecordsOf(t)' = worker[th].batch_articles]_vars

\* both workers ran at once: the record of the second target stands first
\* in articles_data, the two records of the first target behind it, while
\* the thread of the first target has not finished its task
C20_Witness ==
    \E t1, t2 \in Targets, th \in ThreadIds :
      /\ t1 < t2
      /\ Len(articles_data) = 3
      /\ PositionsOf(t2) = {1}
      /\ PositionsOf(t1) = {2, 3}
      /\ worker[th].task = t1
      /\ worker[th].pc = "date_sleep"

=============================================================================
